---------------------------- MODULE Spec2Model ----------------------------
(***************************************************************************)
(* Model of the OpenGL video renderer,                                     *)
(* src/modules/video_output/opengl/renderer.c.                             *)
(*                                                                         *)
(* Numbers.  The renderer computes in C float.  The model keeps:           *)
(*   - an angle in radians (f_fovx) as the exact binary32 value, written   *)
(*     as an integer count of 2^-25 rad: every binary32 in [0.25, 4) is    *)
(*     such a multiple, and every legal field of view lies in that range;  *)
(*   - a field of view in degrees as an integer count of 2^-16 degree      *)
(*     (every such count below 2^24 is a binary32);                        *)
(*   - the zoom f_z and the minimal zoom z_min in units of 10^-6;          *)
(*   - a result of libm (tanf, atanf, sinf, sqrtf) either as a table over  *)
(*     the inputs of the model or as the term of its arguments;            *)
(*   - a texture coordinate as an exact fraction <<n, d>>.                 *)
(* Rounding of float arithmetic is modelled where it decides a branch (the *)
(* degree to radian conversion and the comparisons on f_fovx); elsewhere   *)
(* the arithmetic is exact.                                                *)
(***************************************************************************)
EXTENDS Integers, Sequences, FiniteSets, TLC

(***************************************************************************)
(* Return codes (vlc_common.h).                                            *)
(***************************************************************************)
VLC_SUCCESS  == "VLC_SUCCESS"
VLC_EGENERIC == "VLC_EGENERIC"
VLC_ENOMEM   == "VLC_ENOMEM"
VLC_EBADVAR  == "VLC_EBADVAR"

(***************************************************************************)
(* Integer helpers.  TLC integers are 32 bit wide: every product below is  *)
(* split so that it stays under 2^31.                                      *)
(***************************************************************************)
RECURSIVE Pow2(_)
Pow2(n) == IF n = 0 THEN 1 ELSE 2 * Pow2(n - 1)

RECURSIVE BitLen(_)
BitLen(n) == IF n = 0 THEN 0 ELSE 1 + BitLen(n \div 2)

Abs(x) == IF x < 0 THEN -x ELSE x

RECURSIVE GCD(_, _)
GCD(a, b) == IF b = 0 THEN a ELSE GCD(b, a % b)

\* <<(x * y) \div d, (x * y) % d>> for x, y >= 0 and d > 0, by doubling.
RECURSIVE MulDivMod(_, _, _)
MulDivMod(x, y, d) ==
    IF y = 0 THEN <<0, 0>>
    ELSE LET h == MulDivMod(x, y \div 2, d)
             t == 2 * h[2] + x * (y % 2)
         IN  <<2 * h[1] + t \div d, t % d>>

\* x * y / d truncated toward zero, x of either sign, y >= 0, d > 0.
MulDiv(x, y, d) ==
    IF x < 0 THEN -(MulDivMod(-x, y, d)[1]) ELSE MulDivMod(x, y, d)[1]

\* Round to nearest, ties to even: m + 1 when the discarded part rem (out
\* of full) is above half, or is exactly half and m is odd.
RoundNearestEven(m, rem, full) ==
    IF 2 * rem > full \/ (2 * rem = full /\ m % 2 = 1) THEN m + 1 ELSE m

(***************************************************************************)
(* Angles.                                                                 *)
(***************************************************************************)
\* One degree, in the unit of a field of view (2^-16 degree).
DEG == Pow2(16)

\* FIELD_OF_VIEW_DEGREES_MIN and FIELD_OF_VIEW_DEGREES_MAX, the 20.f and
\* 150.f of vlc_viewpoint.h.
FIELD_OF_VIEW_DEGREES_MIN == 20 * DEG
FIELD_OF_VIEW_DEGREES_MAX == 150 * DEG

\* (float)M_PI = 13176795 * 2^-22, and M_PI (double) in units of 2^-25 rad,
\* rounded down (M_PI * 2^25 = 105414357.07).
M_PI_F_MANT == 13176795
M_PI_GRID   == 105414357

\* p_vp->fov * (float)M_PI / 180.f in binary32 arithmetic, for a field of
\* view d (2^-16 degree, at least 2^12 units); the result in 2^-25 rad.
\* The product d * M_PI_F_MANT (48 bits) is formed as hi * 2^24 + lo and
\* rounded to 24 bits, then divided by 180 and rounded to 24 bits again.
DegToRad(d) ==
    LET dh  == d \div 4096
        dl  == d % 4096
        ph  == M_PI_F_MANT \div 4096
        pl  == M_PI_F_MANT % 4096
        mid == dh * pl + dl * ph
        t   == dl * pl + (mid % 4096) * 4096
        lo  == t % Pow2(24)
        hi  == dh * ph + mid \div 4096 + t \div Pow2(24)
        \* the product is hi * 2^24 + lo, in units of 2^-38
        b   == BitLen(hi)
        m0  == hi * Pow2(24 - b) + lo \div Pow2(b)
        m1  == RoundNearestEven(m0, lo % Pow2(b), Pow2(b))
        m   == IF m1 = Pow2(24) THEN Pow2(23) ELSE m1
        e   == IF m1 = Pow2(24) THEN b + 1 - 38 ELSE b - 38
        \* fov * pi = m * 2^e; now m * 2^e / 180
        n   == m * 128
        q   == n \div 180
        r   == n % 180
        wide == q >= Pow2(23)
        q1  == IF wide THEN RoundNearestEven(q, r, 180)
               ELSE RoundNearestEven(2 * q + (2 * r) \div 180, (2 * r) % 180, 180)
        e1  == IF wide THEN e - 7 ELSE e - 8
    IN  q1 * Pow2(e1 + 25)

\* 0.001f = 8589935 * 2^-33 (renderer.c:514), and the unit of f_fovx in
\* units of 2^-33.
\* A comparison of the two FOVs without the epsilon.
FovxDiffers(a, b) == a /= b

EPSILON_MANT == 8589935
GRID_PER_EPS_UNIT == Pow2(33 - 25)

\* fabsf(a - b) >= 0.001f for a, b in units of 2^-25 rad.  The difference
\* of two binary32 values is a multiple of 2^-25, and a multiple of 2^-25
\* below 1/2 is a binary32, so rounding never moves it across 0.001f.
FovxChanged(a, b) ==
    Abs(a - b) >= (EPSILON_MANT + GRID_PER_EPS_UNIT - 1) \div GRID_PER_EPS_UNIT

(***************************************************************************)
(* Matrices.  A matrix is a sequence of 16 entries in the order of the C   *)
(* array.  An entry is a 6-tuple of integers <<kind, a, b, c, d, e>>:      *)
(*   kind 0: the number a * 10^-6;                                         *)
(*   kind 2: f = 1 / tanf(fovy / 2) for the vertical FOV <<a, b, c>>;      *)
(*   kind 3: f / sar for the vertical FOV <<a, b, c>> and sar = d / e;     *)
(*   kind 4: entry a of vlc_viewpoint_to_4x4 for yaw b, pitch c, roll d.   *)
(***************************************************************************)
MICRO == 1000 * 1000

Num(v)  == <<0, v, 0, 0, 0, 0>>
ZERO    == Num(0)
ONE     == Num(MICRO)

identity ==
    << ONE,  ZERO, ZERO, ZERO,
       ZERO, ONE,  ZERO, ZERO,
       ZERO, ZERO, ONE,  ZERO,
       ZERO, ZERO, ZERO, ONE >>

\* getZoomMatrix: the identity with zoom (units of 10^-6) at [3][2].
getZoomMatrix(zoom) ==
    << ONE,  ZERO, ZERO,      ZERO,
       ZERO, ONE,  ZERO,      ZERO,
       ZERO, ZERO, ONE,       ZERO,
       ZERO, ZERO, Num(zoom), ONE >>

\* zNear = 0.01 and zFar = 1000, in units of 0.01.
Z_NEAR == 1
Z_FAR  == 100000

\* getProjectionMatrix: the gluPerspective matrix of sar and fovy.
getProjectionMatrix(sar, fovy) ==
    LET f     == <<2, fovy[1], fovy[2], fovy[3], 0, 0>>
        f_sar_ == <<3, fovy[1], fovy[2], fovy[3], sar[1], sar[2]>>
        m22   == Num(-MulDiv(Z_NEAR + Z_FAR, MICRO, Z_FAR - Z_NEAR))
        m32   == Num(-MulDiv(2 * Z_NEAR * Z_FAR, MICRO \div 100, Z_FAR - Z_NEAR))
    IN  << f_sar_, ZERO, ZERO, ZERO,
           ZERO,   f,    ZERO, ZERO,
           ZERO,   ZERO, m22,  Num(-MICRO),
           ZERO,   ZERO, m32,  ZERO >>

\* vlc_viewpoint_reverse (vlc_viewpoint.h): the angles negated, fov kept.
vlc_viewpoint_reverse(src) ==
    [yaw |-> -src.yaw, pitch |-> -src.pitch, roll |-> -src.roll, fov |-> src.fov]

\* vlc_viewpoint_to_4x4 (libvlccore): the rotation matrix of the three
\* angles; the identity when they are all zero.
vlc_viewpoint_to_4x4(v) ==
    IF v.yaw = 0 /\ v.pitch = 0 /\ v.roll = 0 THEN identity
    ELSE [i \in 1..16 |-> <<4, i, v.yaw, v.pitch, v.roll, 0>>]

PROJECTION_MODE_RECTANGULAR             == "RECTANGULAR"
PROJECTION_MODE_EQUIRECTANGULAR         == "EQUIRECTANGULAR"
PROJECTION_MODE_CUBEMAP_LAYOUT_STANDARD == "CUBEMAP_LAYOUT_STANDARD"
\* a value of the field that is none of the enumerators
PROJECTION_MODE_UNSUPPORTED             == "UNSUPPORTED"

\* The three matrices computed whatever the projection mode.
ViewpointMatrixesOfAnyMode(sar, fovy, z, v, projection_mode) ==
    [ProjectionMatrix |-> getProjectionMatrix(sar, fovy),
     ZoomMatrix       |-> getZoomMatrix(z),
     ViewMatrix       |-> vlc_viewpoint_to_4x4(v)]

\* getViewpointMatrixes: the three matrices the viewpoint drives, from the
\* renderer's f_sar, f_fovy, f_z and vp.
getViewpointMatrixes(sar, fovy, z, v, projection_mode) ==
    IF projection_mode = PROJECTION_MODE_EQUIRECTANGULAR
       \/ projection_mode = PROJECTION_MODE_CUBEMAP_LAYOUT_STANDARD
    THEN [ProjectionMatrix |-> getProjectionMatrix(sar, fovy),
          ZoomMatrix       |-> getZoomMatrix(z),
          ViewMatrix       |-> vlc_viewpoint_to_4x4(v)]
    ELSE [ProjectionMatrix |-> identity,
          ZoomMatrix       |-> identity,
          ViewMatrix       |-> identity]

(***************************************************************************)
(* Field of view and minimal zoom.                                         *)
(***************************************************************************)
\* A float aspect ratio is the fraction <<n, d>>; 0.f is <<0, 1>>.
SAR_ZERO  == <<0, 1>>
\* A vertical FOV is the term <<fovx, n, d>> of 2 * atanf(tanf(fovx / 2) /
\* (n / d)); 0.f is <<0, 0, 1>>.
FOVY_ZERO == <<0, 0, 1>>

\* UpdateFOVy: 2 * atanf(tanf(f_fovx / 2) / f_sar); 0 when f_fovx is 0.
UpdateFOVy(fovx, sar) ==
    IF fovx = 0 THEN FOVY_ZERO ELSE <<fovx, sar[1], sar[2]>>

\* z_min = -SPHERE_RADIUS / sinf(atanf(sqrtf(tan_fovx_2^2 + tan_fovy_2^2)))
\* in units of 10^-6, as glibc computes it, for the horizontal FOVs (2^-25
\* rad) and the aspect ratios of the model.
ZMin(fovx, fovy) ==
    LET s == <<fovy[2], fovy[3]>>
        col == CASE s = <<0, 1>>  -> 1
                 [] s = <<1, 1>>  -> 2
                 [] s = <<16, 9>> -> 3
    IN  CASE fovx = 11712707 -> << -1000000, -4133004, -5043090 >>[col]
          [] fovx = 11746261 -> << -1000000, -4121660, -5028966 >>[col]
          [] fovx = 11746271 -> << -1000000, -4121656, -5028961 >>[col]
          [] fovx = 52707180 -> << -1000000, -1224745, -1326516 >>[col]
          [] fovx = 70276240 -> << -1000000, -1080123, -1119471 >>[col]
          [] fovx = 87845304 -> << -1000000, -1017791, -1026908 >>[col]

\* The FOV above which z is calculated, in degrees (z_thresh).
Z_THRESH == 90

\* z_thresh and FIELD_OF_VIEW_DEGREES_MAX - z_thresh in units of 2^-25 rad.
Z_THRESH_RAD == MulDiv(M_PI_GRID, Z_THRESH, 180)
Z_RANGE_RAD  ==
    MulDiv(M_PI_GRID, FIELD_OF_VIEW_DEGREES_MAX \div DEG - Z_THRESH, 180)

\* A zoom that jumps to z_min above the threshold instead of interpolating.
UpdateZWithoutLine(fovx, fovy) ==
    IF fovx <= Z_THRESH_RAD THEN 0 ELSE ZMin(fovx, fovy)

\* UpdateZ: the new f_z (units of 10^-6).  z_thresh * M_PI / 180 and
\* (FIELD_OF_VIEW_DEGREES_MAX - z_thresh) * M_PI / 180 are doubles, here in
\* units of 2^-25 rad.  With f = z_min / range, f * f_fovx - f * thresh is
\* z_min * (f_fovx - thresh) / range; it is below z_min exactly when the
\* quotient exceeds -z_min or equals it with a remainder.
UpdateZ(fovx, fovy) ==
    IF fovx <= Z_THRESH_RAD THEN 0
    ELSE LET z_min == ZMin(fovx, fovy)
             qr    == MulDivMod(-z_min, fovx - Z_THRESH_RAD, Z_RANGE_RAD)
         IN  IF qr[1] > -z_min \/ (qr[1] = -z_min /\ qr[2] > 0)
             THEN z_min
             ELSE -qr[1]

(***************************************************************************)
(* Orientation.                                                            *)
(***************************************************************************)
\* matrix[row * 4 + col] = v
Put(m, row, col, v) == [m EXCEPT ![row * 4 + col + 1] = Num(v * MICRO)]

\* A transform that turns the same way for both quarter turns.
OrientationTurningOneWay(orientation) ==
    CASE orientation \in {"ORIENT_ROTATED_90", "ORIENT_ROTATED_270"} ->
           Put(Put(Put(Put(Put(identity, 0, 0, 0), 0, 1, -1), 1, 0, 1),
                   1, 1, 0), 3, 1, 1)
      [] orientation = "ORIENT_ROTATED_180" ->
           Put(Put(Put(Put(Put(Put(identity, 0, 0, -1), 0, 1, 0), 1, 0, 0),
                       1, 1, -1), 3, 0, 1), 3, 1, 1)
      [] OTHER -> identity

\* getOrientationTransformMatrix: the identity with the entries of the
\* orientation's case overwritten.
getOrientationTransformMatrix(orientation) ==
    CASE orientation = "ORIENT_ROTATED_90" ->
           Put(Put(Put(Put(Put(identity, 0, 0, 0), 0, 1, -1), 1, 0, 1),
                   1, 1, 0), 3, 1, 1)
      [] orientation = "ORIENT_ROTATED_180" ->
           Put(Put(Put(Put(Put(Put(identity, 0, 0, -1), 0, 1, 0), 1, 0, 0),
                       1, 1, -1), 3, 0, 1), 3, 1, 1)
      [] orientation = "ORIENT_ROTATED_270" ->
           Put(Put(Put(Put(Put(identity, 0, 0, 0), 0, 1, 1), 1, 0, -1),
                   1, 1, 0), 3, 0, 1)
      [] orientation = "ORIENT_HFLIPPED" ->
           Put(Put(identity, 0, 0, -1), 3, 0, 1)
      [] orientation = "ORIENT_VFLIPPED" ->
           Put(Put(identity, 1, 1, -1), 3, 1, 1)
      [] orientation = "ORIENT_TRANSPOSED" ->
           Put(Put(Put(Put(Put(identity, 0, 0, 0), 1, 1, 0), 2, 2, -1),
                   0, 1, 1), 1, 0, 1)
      [] orientation = "ORIENT_ANTI_TRANSPOSED" ->
           Put(Put(Put(Put(Put(Put(Put(identity, 0, 0, 0), 1, 1, 0),
                               2, 2, -1), 0, 1, -1), 1, 0, -1), 3, 0, 1),
               3, 1, 1)
      [] OTHER -> identity

(***************************************************************************)
(* Texture coordinates: exact fractions <<n, d>> with d > 0, in lowest     *)
(* terms.                                                                  *)
(***************************************************************************)
Frac(n, d) ==
    LET g == GCD(Abs(n), Abs(d))
    IN  IF d = 0
        THEN <<IF n > 0 THEN 1 ELSE IF n < 0 THEN -1 ELSE 0, 0>>
        ELSE IF d < 0 THEN <<(-n) \div g, (-d) \div g>>
             ELSE <<n \div g, d \div g>>

FAdd(a, b) == Frac(a[1] * b[2] + b[1] * a[2], a[2] * b[2])
FSub(a, b) == Frac(a[1] * b[2] - b[1] * a[2], a[2] * b[2])
FMul(a, b) == Frac(a[1] * b[1], a[2] * b[2])

\* vlc_align_pot (vlc_common.h): the smallest power of two that is >= x.
vlc_align_pot(x) == IF x <= 1 THEN 1 ELSE Pow2(BitLen(x - 1))

\* The texture size of plane j computed by vlc_gl_renderer_New.
TexSize(visible, scale, supports_npot) ==
    LET w == (visible * scale[1]) \div scale[2]
    IN  IF supports_npot THEN w ELSE vlc_align_pot(w)

(***************************************************************************)
(* The renderer.                                                           *)
(***************************************************************************)
VARIABLES
    life,          \* "Uninitialized", "Ready" or "Destroyed"
    fmt,           \* renderer->fmt
    interop,       \* the texture-upload collaborator's tex_count,
                   \* handle_texs_gen and texs
    program_id,    \* renderer->program_id, 0 when there is none
    vp,            \* renderer->vp, the reversed viewpoint
    f_fovx,        \* renderer->f_fovx, units of 2^-25 rad
    f_fovy,        \* renderer->f_fovy, a vertical FOV term
    f_sar,         \* renderer->f_sar, a fraction
    f_z,           \* renderer->f_z, units of 10^-6
    var,           \* renderer->var: the four matrices
    last_source,   \* renderer->last_source
    nb_indices,    \* renderer->nb_indices
    tex_width,     \* renderer->tex_width[]
    tex_height,    \* renderer->tex_height[]
    uloc,          \* renderer->uloc: the uniform locations
    aloc,          \* renderer->aloc: the attribute locations
    buffers,       \* what the buffer objects hold
    textures,      \* the picture the GPU textures hold, 0 for none
    res,           \* per resource: times acquired and times released
    op,            \* the last operation
    arg,           \* its input
    ret,           \* its return value
    calls,         \* the calls it made, in order
    nDraws,        \* the number of Draw calls so far
    build          \* the position of a mesh builder's loop and the
                   \* stores of that iteration

vars == << life, fmt, interop, program_id, vp, f_fovx, f_fovy, f_sar, f_z,
           var, last_source, nb_indices, tex_width, tex_height, uloc, aloc,
           buffers,
           textures, res, op, arg, ret, calls, nDraws, build >>

\* The fields of the renderer that only construction writes.
config == << fmt, interop, program_id, tex_width, tex_height, uloc, aloc >>
\* The fields the viewpoint drives.
view   == << vp, f_fovx, f_fovy, f_sar, f_z, var >>
\* The fields Draw drives.
mesh   == << last_source, nb_indices, buffers >>

(***************************************************************************)
(* Resources.  e is the part of the state construction and destruction     *)
(* work on: the ledger res, the call log, program_id, and whether the      *)
(* texture and buffer handles of the renderer are non-zero.  Deleting a GL *)
(* name that is zero releases nothing.                                     *)
(***************************************************************************)
Resources ==
    { "renderer", "interop", "vertex_shader", "fragment_shader", "program",
      "textures", "vertex_buffer_object", "index_buffer_object",
      "texture_buffer_object" }

\* The uniforms and the attributes of the program, in the order
\* opengl_link_program looks them up.
UniformNames ==
    << "TransformMatrix", "OrientationMatrix", "ProjectionMatrix",
       "ViewMatrix", "ZoomMatrix" >>
AttribNames ==
    << "VertexPosition", "MultiTexCoord0", "MultiTexCoord1", "MultiTexCoord2" >>
LocationNames == UniformNames \o AttribNames

Env0 ==
    [res |-> [x \in Resources |-> <<0, 0>>], calls |-> << >>,
     program_id |-> 0, tex_gen |-> FALSE, buf_gen |-> FALSE,
     loc |-> [i \in DOMAIN LocationNames |-> 0]]

Call(e, fn, what, n) ==
    [e EXCEPT !.calls = Append(@, [fn |-> fn, what |-> what, n |-> n])]

Acquire(e, x) == [e EXCEPT !.res[x] = <<@[1] + 1, @[2]>>]
Release(e, x) == [e EXCEPT !.res[x] = <<@[1], @[2] + 1>>]

GLDelete(e, fn, what, n, live) ==
    IF live THEN Release(Call(e, fn, what, n), what) ELSE Call(e, fn, what, n)

\* A lookup of every location whatever the number of planes.
EveryLocationQueried(i, tex_count) == TRUE

\* The i-th location is looked up: MultiTexCoord1 and MultiTexCoord2 only
\* when the collaborator has that many planes.
LocationQueried(i, tex_count) ==
    \/ i <= 7
    \/ i = 8 /\ tex_count > 1
    \/ i = 9 /\ tex_count > 2

\* The lookups of opengl_link_program: <<all found, e>>.  A lookup stores
\* what GL returns, -1 when fail names it and its index in the program
\* otherwise, and the first -1 ends the lookups; a location that is not
\* looked up is set to -1 when the lookups get that far.
GetLocations(e, tex_count, fail) ==
    LET all   == DOMAIN LocationNames
        bad   == { i \in all : /\ LocationQueried(i, tex_count)
                               /\ fail = LocationNames[i] }
        stop  == IF bad = {} THEN Len(LocationNames) + 1
                 ELSE CHOOSE i \in bad : TRUE
        x(i)  == IF i = stop \/ ~LocationQueried(i, tex_count) THEN -1
                 ELSE IF i <= Len(UniformNames) THEN i - 1
                 ELSE i - Len(UniformNames) - 1
        made  == [i \in all |->
                    [fn   |-> IF i <= Len(UniformNames)
                              THEN "GetUniformLocation"
                              ELSE "GetAttribLocation",
                     what |-> LocationNames[i], n |-> x(i)]]
        Reached(c) == \E i \in all : /\ c = made[i] /\ i <= stop
                                      /\ LocationQueried(i, tex_count)
    IN  << bad = {},
           [e EXCEPT !.loc   = [i \in all |-> IF i <= stop THEN x(i) ELSE @[i]],
                     !.calls = @ \o SelectSeq(made, Reached)] >>

\* The error label of opengl_link_program.
LinkError(e) ==
    <<VLC_EGENERIC,
      [GLDelete(e, "DeleteProgram", "program", 1, TRUE) EXCEPT !.program_id = 0]>>

\* The end of opengl_link_program, g what the lookups gave: the
\* collaborator fetches its own locations when every lookup succeeded.
FetchLocations(g, fail) ==
    IF ~g[1] THEN LinkError(g[2])
    ELSE IF fail = "fetch_locations"
    THEN LinkError(Call(g[2], "pf_fetch_locations", VLC_EGENERIC, 1))
    ELSE <<VLC_SUCCESS, Call(g[2], "pf_fetch_locations", VLC_SUCCESS, 1)>>

\* opengl_link_program: <<return value, e>>.  fail names the step that
\* fails, if any.
opengl_link_program(e, tex_count, fail) ==
    IF fail = "vertex_shader" THEN <<VLC_EGENERIC, e>>
    ELSE
    LET e1 == Acquire(Call(e, "CreateShader", "vertex_shader", 1),
                      "vertex_shader")
    IN  IF fail = "fragment_shader" THEN <<VLC_EGENERIC, e1>>
        ELSE
        LET e2 == Acquire(Call(e1, "opengl_fragment_shader_init",
                               "fragment_shader", 1), "fragment_shader")
            e3 == [Acquire(Call(e2, "CreateProgram", "program", 1), "program")
                      EXCEPT !.program_id = 1]
            e4 == Call(Call(Call(e3, "AttachShader", "fragment_shader", 1),
                            "AttachShader", "vertex_shader", 1),
                       "LinkProgram", "program", 1)
            e5 == GLDelete(GLDelete(e4, "DeleteShader", "vertex_shader", 1, TRUE),
                           "DeleteShader", "fragment_shader", 1, TRUE)
        IN  IF fail = "link" THEN LinkError(e5)
            ELSE FetchLocations(GetLocations(e5, tex_count, fail), fail)

\* A destruction that deletes the collaborator before the textures.
DeleteCollaboratorFirst(e, io) ==
    LET e1 == GLDelete(e, "DeleteBuffers", "vertex_buffer_object", 1, e.buf_gen)
        e2 == GLDelete(e1, "DeleteBuffers", "index_buffer_object", 1, e.buf_gen)
        e3 == GLDelete(e2, "DeleteBuffers", "texture_buffer_object",
                       io.tex_count, e.buf_gen)
        e4 == Release(Call(e3, "vlc_gl_interop_Delete", "interop", 1), "interop")
        e5 == IF ~io.handle_texs_gen
              THEN GLDelete(e4, "DeleteTextures", "textures", io.tex_count,
                            e.tex_gen)
              ELSE e4
        e6 == IF e5.program_id /= 0
              THEN GLDelete(e5, "DeleteProgram", "program", 1, TRUE)
              ELSE e5
        e7 == Release(Call(e6, "free", "renderer", 1), "renderer")
    IN  [e7 EXCEPT !.buf_gen = FALSE, !.tex_gen = FALSE]

\* vlc_gl_renderer_Delete, on e and the collaborator io.
vlc_gl_renderer_Delete(e, io) ==
    LET e1 == GLDelete(e, "DeleteBuffers", "vertex_buffer_object", 1, e.buf_gen)
        e2 == GLDelete(e1, "DeleteBuffers", "index_buffer_object", 1, e.buf_gen)
        e3 == GLDelete(e2, "DeleteBuffers", "texture_buffer_object",
                       io.tex_count, e.buf_gen)
        e4 == IF ~io.handle_texs_gen
              THEN GLDelete(e3, "DeleteTextures", "textures", io.tex_count,
                            e.tex_gen)
              ELSE e3
        e5 == Release(Call(e4, "vlc_gl_interop_Delete", "interop", 1), "interop")
        e6 == IF e5.program_id /= 0
              THEN GLDelete(e5, "DeleteProgram", "program", 1, TRUE)
              ELSE e5
        e7 == Release(Call(e6, "free", "renderer", 1), "renderer")
    IN  [e7 EXCEPT !.buf_gen = FALSE, !.tex_gen = FALSE]

\* vlc_gl_renderer_New up to the GL objects: <<renderer is non-NULL, e>>.
NewEnv(c, fail) ==
    IF fail = "calloc" THEN <<FALSE, Env0>>
    ELSE
    LET e1 == Acquire(Call(Env0, "calloc", "renderer", 1), "renderer")
    IN  IF fail = "interop"
        THEN <<FALSE, Release(Call(e1, "free", "renderer", 1), "renderer")>>
        ELSE
        LET e2 == Acquire(Call(e1, "vlc_gl_interop_New", "interop", 1),
                          "interop")
            l  == opengl_link_program(e2, c.interop.tex_count, fail)
        IN  IF l[1] /= VLC_SUCCESS
            THEN <<FALSE, vlc_gl_renderer_Delete(l[2], c.interop)>>
            ELSE
            LET g  == Call(l[2], "vlc_gl_interop_GenerateTextures", "textures",
                           c.interop.tex_count)
                e3 == IF c.interop.handle_texs_gen THEN l[2]
                      ELSE [Acquire(g, "textures") EXCEPT !.tex_gen = TRUE]
                e4 == Acquire(Call(e3, "GenBuffers", "vertex_buffer_object", 1),
                              "vertex_buffer_object")
                e5 == Acquire(Call(e4, "GenBuffers", "index_buffer_object", 1),
                              "index_buffer_object")
                e6 == Acquire(Call(e5, "GenBuffers", "texture_buffer_object",
                                   c.interop.tex_count),
                              "texture_buffer_object")
            IN  IF ~c.interop.handle_texs_gen /\ fail = "textures"
                THEN <<FALSE, vlc_gl_renderer_Delete(g, c.interop)>>
                ELSE <<TRUE, [e6 EXCEPT !.buf_gen = TRUE]>>

\* The matrices of a renderer that calloc has just returned.
ZERO_MATRIX == [i \in 1..16 |-> ZERO]

\* The failure points that lie after opengl_link_program has succeeded.
Linked(fail) == fail \in {"textures", "none"}

VP_ZERO     == [yaw |-> 0, pitch |-> 0, roll |-> 0, fov |-> 0]
SOURCE_ZERO == [i_x_offset |-> 0, i_y_offset |-> 0,
                i_visible_width |-> 0, i_visible_height |-> 0]
NO_MESH     == [nbVertices |-> 0, nbIndices |-> 0, rect |-> << >>]

\* The fields of the state after vlc_gl_renderer_New, ok and e what NewEnv
\* gave.
Constructed(c, fail, ok, e) ==
        [ life        |-> IF ok THEN "Ready" ELSE "Destroyed",
          fmt         |-> c.fmt,
          interop     |-> c.interop,
          program_id  |-> e.program_id,
          vp          |-> VP_ZERO,
          f_fovx      |-> 0,
          f_fovy      |-> FOVY_ZERO,
          f_sar       |-> SAR_ZERO,
          f_z         |-> 0,
          var         |-> IF Linked(fail)
                          THEN [OrientationMatrix |->
                                  getOrientationTransformMatrix(c.fmt.orientation)]
                               @@ getViewpointMatrixes(SAR_ZERO, FOVY_ZERO, 0,
                                      VP_ZERO, c.fmt.projection_mode)
                          ELSE [OrientationMatrix |-> ZERO_MATRIX,
                                ProjectionMatrix  |-> ZERO_MATRIX,
                                ZoomMatrix        |-> ZERO_MATRIX,
                                ViewMatrix        |-> ZERO_MATRIX],
          last_source |-> SOURCE_ZERO,
          nb_indices  |-> 0,
          tex_width   |-> [j \in 1..c.interop.tex_count |->
                             IF Linked(fail)
                                   THEN TexSize(c.fmt.i_visible_width,
                                                c.interop.texs[j].w,
                                                c.supports_npot)
                                   ELSE 0],
          tex_height  |-> [j \in 1..c.interop.tex_count |->
                             IF Linked(fail)
                                   THEN TexSize(c.fmt.i_visible_height,
                                                c.interop.texs[j].h,
                                                c.supports_npot)
                                   ELSE 0],
          uloc        |-> [i \in 1..Len(UniformNames) |-> e.loc[i]],
          aloc        |-> [VertexPosition |-> e.loc[Len(UniformNames) + 1],
                           MultiTexCoord  |->
                             [j \in 1..3 |-> e.loc[Len(UniformNames) + 1 + j]]],
          buffers     |-> [gen |-> e.buf_gen, mesh |-> NO_MESH],
          textures    |-> [gen |-> e.tex_gen, picture |-> 0],
          res         |-> e.res,
          op          |-> "New",
          arg         |-> <<c, fail>>,
          ret         |-> IF ok THEN "renderer" ELSE "NULL",
          calls       |-> e.calls,
          nDraws      |-> 0 ]

ConstructedFrom(c, fail, n) == Constructed(c, fail, n[1], n[2])

\* vlc_gl_renderer_New: every field of the state after the call, for the
\* caller's video format, collaborator and supports_npot in c.
vlc_gl_renderer_New(c, fail) == ConstructedFrom(c, fail, NewEnv(c, fail))

(***************************************************************************)
(* Inputs.                                                                 *)
(***************************************************************************)
MaxTurn    == 45
MaxPicture == 2

\* FOVs in units of 2^-16 degree: both ends of the legal range, the value
\* next to each end outside it, 90 and 120 degrees, and the two values
\* above the minimum whose distance from it in radians is the last not to
\* reach 0.001f and the first to reach it.
FovInputs ==
    { FIELD_OF_VIEW_DEGREES_MIN - 1, FIELD_OF_VIEW_DEGREES_MIN,
      FIELD_OF_VIEW_DEGREES_MIN + 3755, FIELD_OF_VIEW_DEGREES_MIN + 3756,
      90 * DEG, 120 * DEG,
      FIELD_OF_VIEW_DEGREES_MAX, FIELD_OF_VIEW_DEGREES_MAX + 1 }

\* p_vp->fov * (float)M_PI / 180.f for every FOV of the model.
Radians == [d \in FovInputs |-> DegToRad(d)]

Viewpoints ==
    [yaw : {-MaxTurn, 0, MaxTurn}, pitch : {0, MaxTurn}, roll : {0},
     fov : FovInputs]

SarInputs == { <<1, 1>>, <<16, 9>> }

UpdateResults == { VLC_SUCCESS, VLC_EGENERIC, VLC_ENOMEM }

\* Planes of a 4:2:0 picture: luma at full size, chroma at half size.
Texs == << [w |-> <<1, 1>>, h |-> <<1, 1>>], [w |-> <<1, 2>>, h |-> <<1, 2>>],
          [w |-> <<1, 2>>, h |-> <<1, 2>>] >>

Config(projection_mode, multiview_mode, handle_texs_gen, tex_count) ==
    [ fmt |-> [projection_mode   |-> projection_mode,
               multiview_mode    |-> multiview_mode,
               orientation       |-> "ORIENT_NORMAL",
               i_width           |-> 8,
               i_height          |-> 8,
               i_visible_width   |-> 8,
               i_visible_height  |-> 8,
               i_cubemap_padding |-> 0],
      interop |-> [tex_count       |-> tex_count,
                   handle_texs_gen |-> handle_texs_gen,
                   texs            |-> SubSeq(Texs, 1, tex_count)],
      supports_npot |-> TRUE ]

(***************************************************************************)
(* Operations.                                                             *)
(***************************************************************************)
\* No mesh builder is running.
NO_BUILD == [fn |-> "none"]

Become(r) ==
    /\ life' = r.life                /\ fmt' = r.fmt
    /\ interop' = r.interop          /\ program_id' = r.program_id
    /\ vp' = r.vp                    /\ f_fovx' = r.f_fovx
    /\ f_fovy' = r.f_fovy            /\ f_sar' = r.f_sar
    /\ f_z' = r.f_z                  /\ var' = r.var
    /\ last_source' = r.last_source  /\ nb_indices' = r.nb_indices
    /\ tex_width' = r.tex_width      /\ tex_height' = r.tex_height
    /\ uloc' = r.uloc                /\ aloc' = r.aloc
    /\ buffers' = r.buffers          /\ textures' = r.textures
    /\ res' = r.res                  /\ op' = r.op
    /\ arg' = r.arg                  /\ ret' = r.ret
    /\ calls' = r.calls              /\ nDraws' = r.nDraws
    /\ build' = NO_BUILD

Is(r) ==
    /\ life = r.life                /\ fmt = r.fmt
    /\ interop = r.interop          /\ program_id = r.program_id
    /\ vp = r.vp                    /\ f_fovx = r.f_fovx
    /\ f_fovy = r.f_fovy            /\ f_sar = r.f_sar
    /\ f_z = r.f_z                  /\ var = r.var
    /\ last_source = r.last_source  /\ nb_indices = r.nb_indices
    /\ tex_width = r.tex_width      /\ tex_height = r.tex_height
    /\ uloc = r.uloc                /\ aloc = r.aloc
    /\ buffers = r.buffers          /\ textures = r.textures
    /\ res = r.res                  /\ op = r.op
    /\ arg = r.arg                  /\ ret = r.ret
    /\ calls = r.calls              /\ nDraws = r.nDraws
    /\ build = NO_BUILD

\* A range check without the lower end.
FovAboveMax(fov) == fov > FIELD_OF_VIEW_DEGREES_MAX

\* The range check of vlc_gl_renderer_SetViewpoint.
FovOutOfRange(fov) ==
    fov > FIELD_OF_VIEW_DEGREES_MAX \/ fov < FIELD_OF_VIEW_DEGREES_MIN

\* vlc_gl_renderer_SetViewpoint
SetViewpoint(p_vp) ==
    /\ life = "Ready"
    /\ op' = "SetViewpoint" /\ arg' = p_vp /\ calls' = << >>
    /\ IF FovOutOfRange(p_vp.fov)
       THEN /\ ret' = VLC_EBADVAR
            /\ UNCHANGED view
       ELSE LET new     == Radians[p_vp.fov]
                changed == FovxChanged(new, f_fovx)
                fovx    == IF changed THEN new ELSE f_fovx
                fovy    == IF changed THEN UpdateFOVy(fovx, f_sar) ELSE f_fovy
                z       == IF changed THEN UpdateZ(fovx, fovy) ELSE f_z
                v       == vlc_viewpoint_reverse(p_vp)
            IN  /\ vp' = v
                /\ f_fovx' = fovx /\ f_fovy' = fovy /\ f_z' = z
                /\ var' = [OrientationMatrix |-> var.OrientationMatrix]
                          @@ getViewpointMatrixes(f_sar, fovy, z, v,
                                                  fmt.projection_mode)
                /\ ret' = VLC_SUCCESS
                /\ UNCHANGED f_sar
    /\ UNCHANGED << build, life, config, mesh, textures, res, nDraws >>

\* A window change that keeps the zoom it finds.
SetWindowAspectRatioKeepingZoom(sar) ==
    /\ life = "Ready"
    /\ op' = "SetWindowAspectRatio" /\ arg' = sar /\ calls' = << >>
    /\ ret' = "void"
    /\ LET fovy == UpdateFOVy(f_fovx, sar)
       IN  /\ f_sar' = sar /\ f_fovy' = fovy
           /\ var' = [OrientationMatrix |-> var.OrientationMatrix]
                     @@ getViewpointMatrixes(sar, fovy, f_z, vp,
                                             fmt.projection_mode)
    /\ UNCHANGED << build, life, config, vp, f_fovx, f_z, mesh, textures, res,
                    nDraws >>

\* vlc_gl_renderer_SetWindowAspectRatio
SetWindowAspectRatio(sar) ==
    /\ life = "Ready"
    /\ op' = "SetWindowAspectRatio" /\ arg' = sar /\ calls' = << >>
    /\ ret' = "void"
    /\ LET fovy == UpdateFOVy(f_fovx, sar)
           z    == UpdateZ(f_fovx, fovy)
       IN  /\ f_sar' = sar /\ f_fovy' = fovy /\ f_z' = z
           /\ var' = [OrientationMatrix |-> var.OrientationMatrix]
                     @@ getViewpointMatrixes(sar, fovy, z, vp,
                                             fmt.projection_mode)
    /\ UNCHANGED << build, life, config, vp, f_fovx, mesh, textures, res, nDraws >>

\* A Prepare that reports success whatever update_textures returns.
PrepareIgnoringResult(picture, r) ==
    /\ life = "Ready"
    /\ op' = "Prepare" /\ arg' = picture
    /\ calls' = << [fn |-> "update_textures", what |-> r, n |-> picture] >>
    /\ textures' = IF r = VLC_SUCCESS
                   THEN [textures EXCEPT !.picture = picture]
                   ELSE textures
    /\ ret' = VLC_SUCCESS
    /\ UNCHANGED << build, life, config, view, mesh, res, nDraws >>

\* vlc_gl_renderer_Prepare: r is what the collaborator's update_textures
\* returns for the picture; the textures hold the picture when it succeeds.
Prepare(picture, r) ==
    /\ life = "Ready"
    /\ op' = "Prepare" /\ arg' = picture
    /\ calls' = << [fn |-> "update_textures", what |-> r, n |-> picture] >>
    /\ textures' = IF r = VLC_SUCCESS
                   THEN [textures EXCEPT !.picture = picture]
                   ELSE textures
    /\ ret' = r
    /\ UNCHANGED << build, life, config, view, mesh, res, nDraws >>

\* vlc_gl_renderer_Delete
Delete ==
    /\ life = "Ready"
    /\ LET e == vlc_gl_renderer_Delete(
                    [res |-> res, calls |-> << >>, program_id |-> program_id,
                     tex_gen |-> textures.gen, buf_gen |-> buffers.gen],
                    interop)
       IN  /\ res' = e.res /\ calls' = e.calls
           /\ buffers' = [buffers EXCEPT !.gen = e.buf_gen]
           /\ textures' = [textures EXCEPT !.gen = e.tex_gen]
    /\ life' = "Destroyed"
    /\ op' = "Delete" /\ arg' = 0 /\ ret' = "void"
    /\ UNCHANGED << build, config, view, last_source, nb_indices, nDraws >>

(***************************************************************************)
(* Meshes.  A mesh is recorded by its vertex and index counts and, per     *)
(* plane, the left, top, right and bottom it was built from.  alloc is the *)
(* allocation that returns NULL: 1, 2 or 3, or 0 for none.                 *)
(***************************************************************************)
Alloc(what, ok) == [fn |-> "vlc_alloc", what |-> what, n |-> IF ok THEN 1 ELSE 0]
Free(what)      == [fn |-> "free", what |-> what, n |-> 1]

\* Allocations whose third result is not checked.
BuildArraysUnchecked(alloc) ==
    CASE alloc = 1 -> <<VLC_ENOMEM, << Alloc("vertexCoord", FALSE) >> >>
      [] alloc = 2 -> <<VLC_ENOMEM, << Alloc("vertexCoord", TRUE),
                                       Alloc("textureCoord", FALSE),
                                       Free("vertexCoord") >> >>
      [] OTHER     -> <<VLC_SUCCESS, << Alloc("vertexCoord", TRUE),
                                        Alloc("textureCoord", TRUE),
                                        Alloc("indices", alloc /= 3) >> >>

\* The three allocations every builder starts with: <<return value, calls>>.
BuildArrays(alloc) ==
    CASE alloc = 1 -> <<VLC_ENOMEM, << Alloc("vertexCoord", FALSE) >> >>
      [] alloc = 2 -> <<VLC_ENOMEM, << Alloc("vertexCoord", TRUE),
                                       Alloc("textureCoord", FALSE),
                                       Free("vertexCoord") >> >>
      [] alloc = 3 -> <<VLC_ENOMEM, << Alloc("vertexCoord", TRUE),
                                       Alloc("textureCoord", TRUE),
                                       Alloc("indices", FALSE),
                                       Free("textureCoord"),
                                       Free("vertexCoord") >> >>
      [] OTHER     -> <<VLC_SUCCESS, << Alloc("vertexCoord", TRUE),
                                        Alloc("textureCoord", TRUE),
                                        Alloc("indices", TRUE) >> >>

Built(nbVertices, nbIndices, rect, alloc) ==
    LET a == BuildArrays(alloc)
    IN  [ret   |-> a[1],
         calls |-> a[2],
         mesh  |-> IF a[1] = VLC_SUCCESS
                   THEN [nbVertices |-> nbVertices, nbIndices |-> nbIndices,
                         rect |-> rect]
                   ELSE NO_MESH]

BuildRectangle(rect, alloc) == Built(4, 6, rect, alloc)

nbLatBands == 128
nbLonBands == 128

BuildSphere(rect, alloc) ==
    Built((nbLatBands + 1) * (nbLonBands + 1), nbLatBands * nbLonBands * 3 * 2,
          rect, alloc)

\* A value stored into an array of GLushort.
GLushort(x) == x % Pow2(16)

\* An index loop that advances by one triangle a cell.
SphereIndicesOverlapping(lat, lon) ==
    LET first  == (lat * (nbLonBands + 1)) + lon
        second == first + nbLonBands + 1
        off    == (lat * nbLatBands + lon) * 3
        v      == << first, second, first + 1, second, second + 1, first + 1 >>
    IN  [s \in off .. off + 5 |-> GLushort(v[s - off + 1])]

\* One iteration of the index loop of BuildSphere: the slots of indices
\* it stores into and the values they get.
SphereIndices(lat, lon) ==
    LET first  == (lat * (nbLonBands + 1)) + lon
        second == first + nbLonBands + 1
        off    == (lat * nbLatBands + lon) * 3 * 2
        v      == << first, second, first + 1, second, second + 1, first + 1 >>
    IN  [s \in off .. off + 5 |-> GLushort(v[s - off + 1])]

\* No builder is in its loop: SetupCoords runs one builder to its end.
BuilderIdle ==
    build.fn = "BuildSphere" =>
      build.lat + 1 >= nbLatBands /\ build.lon + 1 >= nbLonBands

\* The index loop of BuildSphere, one iteration a step: lat outside, lon
\* inside, n the iterations completed before this one.
BuildSphereIndexLoop ==
    /\ \/ /\ BuilderIdle
          /\ build' = [fn |-> "BuildSphere", lat |-> 0, lon |-> 0, n |-> 0,
                       indices |-> SphereIndices(0, 0)]
       \/ /\ build.fn = "BuildSphere"
          /\ ~(build.lon + 1 >= nbLonBands /\ build.lat + 1 >= nbLatBands)
          /\ LET lat == IF build.lon + 1 < nbLonBands THEN build.lat
                        ELSE build.lat + 1
                 lon == IF build.lon + 1 < nbLonBands THEN build.lon + 1
                        ELSE 0
             IN  build' = [fn |-> "BuildSphere", lat |-> lat, lon |-> lon,
                           n |-> build.n + 1,
                           indices |-> SphereIndices(lat, lon)]
    /\ UNCHANGED << life, config, view, mesh, textures, res, op, arg, ret,
                    calls, nDraws >>

\* A cube of one face.
BuildCubeOfOneFace(rect, alloc) == Built(4, 6, rect, alloc)

BuildCube(rect, alloc) == Built(4 * 6, 6 * 6, rect, alloc)

(***************************************************************************)
(* The arrays of the rectangle and of the cube.  vertexCoord is a sequence *)
(* of <<x, y, z>>, textureCoord a sequence, per plane, of <<u, v>> in the  *)
(* order of the vertices, and indices a sequence of vertex numbers.        *)
(***************************************************************************)
\* A rectangle whose texture is upside down.
RectangleTexUpsideDown(r) ==
    << <<r[1], r[4]>>, <<r[1], r[2]>>, <<r[3], r[4]>>, <<r[3], r[2]>> >>

\* coord, tex for one plane's <<left, top, right, bottom>>, and ind of
\* BuildRectangle.
RectangleCoord == << <<-1, 1, -1>>, <<-1, -1, -1>>, <<1, 1, -1>>, <<1, -1, -1>> >>

RectangleTex(r) ==
    << <<r[1], r[2]>>, <<r[1], r[4]>>, <<r[3], r[2]>>, <<r[3], r[4]>> >>

RectangleInd == << 0, 1, 2, 2, 1, 3 >>

\* coord of BuildCube.
CubeCoord ==
    << <<-1,  1, -1>>, <<-1, -1, -1>>, << 1,  1, -1>>, << 1, -1, -1>>,
       <<-1,  1,  1>>, <<-1, -1,  1>>, << 1,  1,  1>>, << 1, -1,  1>>,
       <<-1,  1, -1>>, <<-1, -1, -1>>, <<-1,  1,  1>>, <<-1, -1,  1>>,
       << 1,  1, -1>>, << 1, -1, -1>>, << 1,  1,  1>>, << 1, -1,  1>>,
       <<-1, -1,  1>>, <<-1, -1, -1>>, << 1, -1,  1>>, << 1, -1, -1>>,
       <<-1,  1,  1>>, <<-1,  1, -1>>, << 1,  1,  1>>, << 1,  1, -1>> >>

\* Faces without padding.
CubeTexWithoutPadding(padW, padH, r) ==
    LET width  == FSub(r[3], r[1])
        height == FSub(r[4], r[2])
        col == << r[1], FAdd(r[1], FMul(width, <<1, 3>>)),
                  FAdd(r[1], FMul(width, <<2, 3>>)), FAdd(r[1], width) >>
        row == << r[2], FAdd(r[2], FMul(height, <<1, 2>>)),
                  FAdd(r[2], height) >>
    IN  << <<col[2], row[2]>>, <<col[2], row[3]>>,
           <<col[3], row[2]>>, <<col[3], row[3]>>,
           <<col[4], row[2]>>, <<col[4], row[3]>>,
           <<col[3], row[2]>>, <<col[3], row[3]>>,
           <<col[3], row[1]>>, <<col[3], row[2]>>,
           <<col[2], row[1]>>, <<col[2], row[2]>>,
           <<col[1], row[1]>>, <<col[1], row[2]>>,
           <<col[2], row[1]>>, <<col[2], row[2]>>,
           <<col[1], row[3]>>, <<col[1], row[2]>>,
           <<col[2], row[3]>>, <<col[2], row[2]>>,
           <<col[3], row[1]>>, <<col[3], row[2]>>,
           <<col[4], row[1]>>, <<col[4], row[2]>> >>

\* tex of BuildCube for one plane's <<left, top, right, bottom>>.  col and
\* row are numbered from 1 here and from 0 in the source.
CubeTex(padW, padH, r) ==
    LET width  == FSub(r[3], r[1])
        height == FSub(r[4], r[2])
        col == << r[1], FAdd(r[1], FMul(width, <<1, 3>>)),
                  FAdd(r[1], FMul(width, <<2, 3>>)), FAdd(r[1], width) >>
        row == << r[2], FAdd(r[2], FMul(height, <<1, 2>>)),
                  FAdd(r[2], height) >>
    IN  << <<FAdd(col[2], padW), FAdd(row[2], padH)>>,   \* front
           <<FAdd(col[2], padW), FSub(row[3], padH)>>,
           <<FSub(col[3], padW), FAdd(row[2], padH)>>,
           <<FSub(col[3], padW), FSub(row[3], padH)>>,
           <<FSub(col[4], padW), FAdd(row[2], padH)>>,   \* back
           <<FSub(col[4], padW), FSub(row[3], padH)>>,
           <<FAdd(col[3], padW), FAdd(row[2], padH)>>,
           <<FAdd(col[3], padW), FSub(row[3], padH)>>,
           <<FSub(col[3], padW), FAdd(row[1], padH)>>,   \* left
           <<FSub(col[3], padW), FSub(row[2], padH)>>,
           <<FAdd(col[2], padW), FAdd(row[1], padH)>>,
           <<FAdd(col[2], padW), FSub(row[2], padH)>>,
           <<FAdd(col[1], padW), FAdd(row[1], padH)>>,   \* right
           <<FAdd(col[1], padW), FSub(row[2], padH)>>,
           <<FSub(col[2], padW), FAdd(row[1], padH)>>,
           <<FSub(col[2], padW), FSub(row[2], padH)>>,
           <<FAdd(col[1], padW), FSub(row[3], padH)>>,   \* bottom
           <<FAdd(col[1], padW), FAdd(row[2], padH)>>,
           <<FSub(col[2], padW), FSub(row[3], padH)>>,
           <<FSub(col[2], padW), FAdd(row[2], padH)>>,
           <<FAdd(col[3], padW), FAdd(row[1], padH)>>,   \* top
           <<FAdd(col[3], padW), FSub(row[2], padH)>>,
           <<FSub(col[4], padW), FAdd(row[1], padH)>>,
           <<FSub(col[4], padW), FSub(row[2], padH)>> >>

\* Indices that take every face from the vertices of the front.
CubeIndOfTheFront ==
    << 0, 1, 2,  2, 1, 3,   2, 3, 0,  0, 3, 1,   2, 3, 0,  0, 3, 1,
       0, 1, 2,  2, 1, 3,   2, 3, 0,  0, 3, 1,   0, 1, 2,  2, 1, 3 >>

\* ind of BuildCube.
CubeInd ==
    << 0, 1, 2,     2, 1, 3,      6, 7, 4,     4, 7, 5,
       10, 11, 8,   8, 11, 9,     12, 13, 14,  14, 13, 15,
       18, 19, 16,  16, 19, 17,   20, 21, 22,  22, 21, 23 >>

\* SetupCoords: the builder of the projection mode, then the uploads and
\* the frees when it succeeded.
SetupCoords(projection_mode, tex_count, rect, alloc) ==
    LET b == CASE projection_mode = PROJECTION_MODE_RECTANGULAR ->
                    BuildRectangle(rect, alloc)
               [] projection_mode = PROJECTION_MODE_EQUIRECTANGULAR ->
                    BuildSphere(rect, alloc)
               [] projection_mode = PROJECTION_MODE_CUBEMAP_LAYOUT_STANDARD ->
                    BuildCube(rect, alloc)
               [] OTHER ->
                    [ret |-> VLC_EGENERIC, calls |-> << >>, mesh |-> NO_MESH]
        tbo == [j \in 1..tex_count |->
                  [fn |-> "BufferData", what |-> "texture_buffer_object",
                   n |-> b.mesh.nbVertices * 2 * 4]]
        self == << [fn |-> "SetupCoords", what |-> b.ret, n |-> tex_count] >>
    IN  IF b.ret /= VLC_SUCCESS THEN [b EXCEPT !.calls = self \o @]
        ELSE [b EXCEPT !.calls =
                self \o @ \o tbo \o
                << [fn |-> "BufferData", what |-> "vertex_buffer_object",
                    n |-> b.mesh.nbVertices * 3 * 4],
                   [fn |-> "BufferData", what |-> "index_buffer_object",
                    n |-> b.mesh.nbIndices * 2],
                   Free("textureCoord"), Free("vertexCoord"), Free("indices") >>]

\* DrawWithShaders: the calls it makes.
DrawWithShaders(tex_count, count) ==
    << [fn |-> "pf_prepare_shader", what |-> "program", n |-> 1] >>
    \o [k \in 1..2 * tex_count |->
          IF k % 2 = 1
          THEN [fn |-> "BindTexture", what |-> "textures", n |-> (k + 1) \div 2]
          ELSE [fn |-> "EnableVertexAttribArray",
                what |-> AttribNames[k \div 2 + 1],
                n |-> aloc.MultiTexCoord[k \div 2]]]
    \o << [fn |-> "EnableVertexAttribArray", what |-> "VertexPosition",
            n |-> aloc.VertexPosition],
          [fn |-> "UniformMatrix4fv", what |-> "TransformMatrix", n |-> 1],
          [fn |-> "UniformMatrix4fv", what |-> "OrientationMatrix", n |-> 1],
          [fn |-> "UniformMatrix4fv", what |-> "ProjectionMatrix", n |-> 1],
          [fn |-> "UniformMatrix4fv", what |-> "ViewMatrix", n |-> 1],
          [fn |-> "UniformMatrix4fv", what |-> "ZoomMatrix", n |-> 1],
          [fn |-> "DrawElements", what |-> "index_buffer_object", n |-> count] >>

\* GetTextureCropParamsForStereo on one plane's <<left, top, right, bottom>>.
GetTextureCropParamsForStereo(stereoCoefs, stereoOffsets, r) ==
    LET f_2eyesWidth  == FSub(r[3], r[1])
        left          == FAdd(r[1], FMul(f_2eyesWidth, stereoOffsets[1]))
        right         == FAdd(left, FMul(f_2eyesWidth, stereoCoefs[1]))
        f_2eyesHeight == FSub(r[4], r[2])
        top           == FAdd(r[2], FMul(f_2eyesHeight, stereoOffsets[2]))
        bottom        == FAdd(top, FMul(f_2eyesHeight, stereoCoefs[2]))
    IN  <<left, top, right, bottom>>

MULTIVIEW_2D         == "MULTIVIEW_2D"
MULTIVIEW_STEREO_SBS == "MULTIVIEW_STEREO_SBS"
MULTIVIEW_STEREO_TB  == "MULTIVIEW_STEREO_TB"
MULTIVIEW_STEREO_ROW == "MULTIVIEW_STEREO_ROW"

\* A crop with the coefficients of the two stereo layouts exchanged.
TextureCropWithLayoutsExchanged(multiview_mode, rect) ==
    CASE multiview_mode = MULTIVIEW_STEREO_SBS ->
           [j \in DOMAIN rect |->
              GetTextureCropParamsForStereo(<< <<1, 1>>, <<1, 2>> >>,
                                            << <<0, 1>>, <<0, 1>> >>, rect[j])]
      [] multiview_mode = MULTIVIEW_STEREO_TB ->
           [j \in DOMAIN rect |->
              GetTextureCropParamsForStereo(<< <<1, 2>>, <<1, 1>> >>,
                                            << <<0, 1>>, <<0, 1>> >>, rect[j])]
      [] OTHER -> rect

\* TextureCropForStereo on the per-plane rectangles.
TextureCropForStereo(multiview_mode, rect) ==
    CASE multiview_mode = MULTIVIEW_STEREO_TB ->
           [j \in DOMAIN rect |->
              GetTextureCropParamsForStereo(<< <<1, 1>>, <<1, 2>> >>,
                                            << <<0, 1>>, <<0, 1>> >>, rect[j])]
      [] multiview_mode = MULTIVIEW_STEREO_SBS ->
           [j \in DOMAIN rect |->
              GetTextureCropParamsForStereo(<< <<1, 2>>, <<1, 1>> >>,
                                            << <<0, 1>>, <<0, 1>> >>, rect[j])]
      [] OTHER -> rect

\* A comparison of the offsets only.
SourceMoved(source, last) ==
    \/ source.i_x_offset /= last.i_x_offset
    \/ source.i_y_offset /= last.i_y_offset

\* The comparison of the source with last_source in vlc_gl_renderer_Draw.
SourceChanged(source, last) ==
    \/ source.i_x_offset /= last.i_x_offset
    \/ source.i_y_offset /= last.i_y_offset
    \/ source.i_visible_width /= last.i_visible_width
    \/ source.i_visible_height /= last.i_visible_height

\* The per-plane <<left, top, right, bottom>> vlc_gl_renderer_Draw computes
\* from the source before the stereo crop.
SourceRect(source, texs, width, height) ==
    [j \in DOMAIN texs |->
       LET scale_w == Frac(texs[j].w[1], texs[j].w[2] * width[j])
           scale_h == Frac(texs[j].h[1], texs[j].h[2] * height[j])
       IN  << FMul(<<source.i_x_offset, 1>>, scale_w),
              FMul(<<source.i_y_offset, 1>>, scale_h),
              FMul(<<source.i_x_offset + source.i_visible_width, 1>>, scale_w),
              FMul(<<source.i_y_offset + source.i_visible_height, 1>>, scale_h) >>]

\* The sampling rectangles vlc_gl_renderer_Draw hands to SetupCoords.
DrawRect(source) ==
    TextureCropForStereo(fmt.multiview_mode,
                         SourceRect(source, interop.texs, tex_width, tex_height))

\* BuildRectangle as SetupCoords calls it: the arrays it fills.
BuildRectangleArrays(source) ==
    /\ BuilderIdle
    /\ LET rect == DrawRect(source)
           b    == BuildRectangle(rect, 0)
       IN  build' = [fn |-> "BuildRectangle", rect |-> rect,
                     nbVertices   |-> b.mesh.nbVertices,
                     nbIndices    |-> b.mesh.nbIndices,
                     vertexCoord  |-> RectangleCoord,
                     textureCoord |-> [p \in DOMAIN rect |->
                                         RectangleTex(rect[p])],
                     indices      |-> [i \in DOMAIN RectangleInd |->
                                         GLushort(RectangleInd[i])]]
    /\ UNCHANGED << life, config, view, mesh, textures, res, op, arg, ret,
                    calls, nDraws >>

\* BuildCube as SetupCoords calls it: the arrays it fills.
BuildCubeArrays(source) ==
    /\ BuilderIdle
    /\ LET rect == DrawRect(source)
           b    == BuildCube(rect, 0)
           padW == Frac(fmt.i_cubemap_padding, fmt.i_width)
           padH == Frac(fmt.i_cubemap_padding, fmt.i_height)
       IN  build' = [fn |-> "BuildCube", rect |-> rect,
                     padW |-> padW, padH |-> padH,
                     nbVertices   |-> b.mesh.nbVertices,
                     nbIndices    |-> b.mesh.nbIndices,
                     vertexCoord  |-> CubeCoord,
                     textureCoord |-> [p \in DOMAIN rect |->
                                         CubeTex(padW, padH, rect[p])],
                     indices      |-> [i \in DOMAIN CubeInd |->
                                         GLushort(CubeInd[i])]]
    /\ UNCHANGED << life, config, view, mesh, textures, res, op, arg, ret,
                    calls, nDraws >>

MaxDraws  == 3

\* vlc_gl_renderer_Draw
Draw(source, alloc) ==
    /\ life = "Ready"
    /\ nDraws < MaxDraws
    /\ nDraws' = nDraws + 1
    /\ op' = "Draw" /\ arg' = source
    /\ LET head == << [fn |-> "Clear", what |-> "GL_COLOR_BUFFER_BIT", n |-> 1],
                      [fn |-> "UseProgram", what |-> "program", n |-> program_id] >>
       IN  IF SourceChanged(source, last_source)
           THEN LET rect == TextureCropForStereo(fmt.multiview_mode,
                                SourceRect(source, interop.texs,
                                           tex_width, tex_height))
                    s    == SetupCoords(fmt.projection_mode, interop.tex_count,
                                        rect, alloc)
                IN  IF s.ret /= VLC_SUCCESS
                    THEN /\ ret' = s.ret
                         /\ calls' = head \o s.calls
                         /\ UNCHANGED mesh
                    ELSE /\ ret' = VLC_SUCCESS
                         /\ buffers' = [buffers EXCEPT !.mesh = s.mesh]
                         /\ nb_indices' = s.mesh.nbIndices
                         /\ last_source' = source
                         /\ calls' = head \o s.calls
                                     \o DrawWithShaders(interop.tex_count,
                                                        s.mesh.nbIndices)
           ELSE /\ ret' = VLC_SUCCESS
                /\ calls' = head \o DrawWithShaders(interop.tex_count, nb_indices)
                /\ UNCHANGED mesh
    /\ UNCHANGED << build, life, config, view, textures, res >>

(***************************************************************************)
(* Specifications.                                                         *)
(***************************************************************************)
MaxOffset == 1

Failures ==
    { "none", "calloc", "interop", "vertex_shader", "fragment_shader", "link",
      "fetch_locations", "textures" }
    \cup { LocationNames[i] : i \in DOMAIN LocationNames }

Configs ==
    { Config(p, MULTIVIEW_2D, h, n) :
        p \in {PROJECTION_MODE_RECTANGULAR, PROJECTION_MODE_EQUIRECTANGULAR},
        h \in BOOLEAN, n \in 1..3 }

ViewConfigs ==
    { Config(p, MULTIVIEW_2D, TRUE, 1) :
        p \in {PROJECTION_MODE_RECTANGULAR, PROJECTION_MODE_EQUIRECTANGULAR,
               PROJECTION_MODE_CUBEMAP_LAYOUT_STANDARD} }

\* Every projection mode without stereo, and every stereo layout on the
\* rectangular mode.
DrawConfigs ==
    { Config(p, MULTIVIEW_2D, TRUE, 2) :
        p \in {PROJECTION_MODE_RECTANGULAR, PROJECTION_MODE_EQUIRECTANGULAR,
               PROJECTION_MODE_CUBEMAP_LAYOUT_STANDARD,
               PROJECTION_MODE_UNSUPPORTED} }
    \cup
    { Config(PROJECTION_MODE_RECTANGULAR, m, TRUE, 2) :
        m \in {MULTIVIEW_STEREO_SBS, MULTIVIEW_STEREO_TB, MULTIVIEW_STEREO_ROW} }

\* Source rectangles: empty, whole picture, left half.
Sources ==
    { [i_x_offset |-> x, i_y_offset |-> y,
       i_visible_width |-> size[1], i_visible_height |-> size[2]] :
        x \in 0..MaxOffset, y \in 0..1, size \in {<<0, 0>>, <<8, 8>>, <<4, 8>>} }

\* vlc_gl_renderer_New, called when there is no renderer
New(c, fail) ==
    /\ life /= "Ready"
    /\ fail = "textures" => ~c.interop.handle_texs_gen
    /\ \A i \in DOMAIN LocationNames :
          fail = LocationNames[i] => LocationQueried(i, c.interop.tex_count)
    /\ Become(vlc_gl_renderer_New(c, fail))

\* The whole program: a renderer is constructed, used and deleted.
Init ==
    Is([vlc_gl_renderer_New(Config(PROJECTION_MODE_RECTANGULAR, MULTIVIEW_2D,
                                   TRUE, 1), "calloc")
          EXCEPT !.life = "Uninitialized", !.op = "none", !.arg = 0,
                 !.ret = "void"])

Next ==
    \/ \E c \in Configs, fail \in Failures : New(c, fail)
    \/ Delete
    \/ \E p \in {v \in Viewpoints :
                   /\ v.pitch = 0 /\ v.yaw >= 0
                   /\ v.fov \in {FIELD_OF_VIEW_DEGREES_MIN - 1, 120 * DEG}} :
          SetViewpoint(p)
    \/ SetWindowAspectRatio(<<16, 9>>)
    \/ \E picture \in 1..MaxPicture, r \in UpdateResults : Prepare(picture, r)
    \/ \E source \in {SOURCE_ZERO,
                      [SOURCE_ZERO EXCEPT !.i_visible_width = 8,
                                          !.i_visible_height = 8]},
          alloc \in {0, 3} : Draw(source, alloc)

Spec == Init /\ [][Next]_vars

\* A constructed renderer under viewpoint and window changes.
InitView == \E c \in ViewConfigs : Is(vlc_gl_renderer_New(c, "none"))

NextView ==
    \/ \E p \in Viewpoints : SetViewpoint(p)
    \/ \E sar \in SarInputs : SetWindowAspectRatio(sar)

SpecView == InitView /\ [][NextView]_vars

\* A constructed renderer drawing a sequence of sources.
InitDraw == \E c \in DrawConfigs : Is(vlc_gl_renderer_New(c, "none"))

NextDraw == \E source \in Sources, alloc \in 0..3 : Draw(source, alloc)

SpecDraw == InitDraw /\ [][NextDraw]_vars

\* Constructed renderers of several visible widths drawing sources that
\* lie within the visible size.
MaxSize == 5

SizeConfigs ==
    { [Config(PROJECTION_MODE_RECTANGULAR, MULTIVIEW_2D, TRUE, 2)
         EXCEPT !.fmt.i_width = c[1], !.fmt.i_visible_width = c[1],
                !.supports_npot = c[2]] :
        c \in { x \in (1..MaxSize) \X BOOLEAN : x[2] \/ x[1] >= 2 } }

SizeSources ==
    { [i_x_offset |-> x, i_y_offset |-> 0,
       i_visible_width |-> w, i_visible_height |-> 8] :
        x \in 0..MaxOffset, w \in 1..MaxSize }

InitSize == \E c \in SizeConfigs : Is(vlc_gl_renderer_New(c, "none"))

NextSize ==
    \E source \in SizeSources :
       /\ source.i_x_offset + source.i_visible_width <= fmt.i_visible_width
       /\ Draw(source, 0)

SpecSize == InitSize /\ [][NextSize]_vars

\* A constructed renderer of every orientation under viewpoint and window
\* changes.
Orientations ==
    { "ORIENT_NORMAL", "ORIENT_TRANSPOSED", "ORIENT_ANTI_TRANSPOSED",
      "ORIENT_HFLIPPED", "ORIENT_VFLIPPED", "ORIENT_ROTATED_180",
      "ORIENT_ROTATED_270", "ORIENT_ROTATED_90" }

OrientConfigs ==
    { [Config(p, MULTIVIEW_2D, TRUE, 1) EXCEPT !.fmt.orientation = o] :
        p \in {PROJECTION_MODE_RECTANGULAR, PROJECTION_MODE_EQUIRECTANGULAR},
        o \in Orientations }

InitOrient == \E c \in OrientConfigs : Is(vlc_gl_renderer_New(c, "none"))

NextOrient ==
    \/ \E p \in {v \in Viewpoints : v.pitch = 0 /\ v.yaw > 0} :
          SetViewpoint(p)
    \/ \E sar \in SarInputs : SetWindowAspectRatio(sar)
    \/ Prepare(1, VLC_SUCCESS)
    \/ Draw([SOURCE_ZERO EXCEPT !.i_visible_width = 8,
                                !.i_visible_height = 8], 0)

SpecOrient == InitOrient /\ [][NextOrient]_vars

\* The mesh builders on their own.
MaxPadding == 1

BuildConfigs ==
    { [Config(PROJECTION_MODE_CUBEMAP_LAYOUT_STANDARD, MULTIVIEW_2D, TRUE, 2)
         EXCEPT !.fmt.i_cubemap_padding = pad] : pad \in 0..MaxPadding }

InitBuild == \E c \in BuildConfigs : Is(vlc_gl_renderer_New(c, "none"))

NextBuild ==
    \/ BuildSphereIndexLoop
    \/ \E source \in Sources : BuildRectangleArrays(source)
    \/ \E source \in Sources : BuildCubeArrays(source)

SpecBuild == InitBuild /\ [][NextBuild]_vars

(***************************************************************************)
(* Properties of the viewpoint operations (SpecView).                      *)
(***************************************************************************)
IsSetViewpoint(o, a, legal) ==
    /\ o = "SetViewpoint"
    /\ legal = (a.fov >= FIELD_OF_VIEW_DEGREES_MIN
                /\ a.fov <= FIELD_OF_VIEW_DEGREES_MAX)

\* C2: SetViewpoint with a FOV below FIELD_OF_VIEW_DEGREES_MIN or above
\* FIELD_OF_VIEW_DEGREES_MAX returns VLC_EBADVAR and changes nothing of the
\* renderer (reversed viewpoint, horizontal and vertical FOV, aspect ratio,
\* zoom, matrices, mesh, textures); a SetViewpoint with a legal FOV that
\* follows it returns VLC_SUCCESS.
C2_BadFovChangesNothing ==
    [][ /\ IsSetViewpoint(op', arg', FALSE) =>
             /\ ret' = VLC_EBADVAR
             /\ UNCHANGED << build, life, config, view, mesh, textures, res >>
        /\ (IsSetViewpoint(op, arg, FALSE) /\ IsSetViewpoint(op', arg', TRUE)) =>
             ret' = VLC_SUCCESS ]_vars

\* A rejected SetViewpoint on a renderer whose viewpoint and FOV had been
\* set before.
C2_Witness ==
    /\ IsSetViewpoint(op, arg, FALSE) /\ ret = VLC_EBADVAR
    /\ vp.yaw /= 0 /\ f_fovx > 0 /\ f_z < 0

\* 0.001 rad in units of 2^-25 rad, rounded down.
MILLIRAD == Pow2(25) \div 1000

\* C3: SetViewpoint with a FOV in the legal range returns VLC_SUCCESS; it
\* stores the new horizontal FOV and recomputes the vertical FOV and the zoom
\* when the new FOV in radians differs from the stored one by more than
\* 0.001, and leaves the three unchanged otherwise.
C3_FovEpsilon ==
    [][ IsSetViewpoint(op', arg', TRUE) =>
          /\ ret' = VLC_SUCCESS
          /\ IF Abs(Radians[arg'.fov] - f_fovx) > MILLIRAD
             THEN /\ f_fovx' = Radians[arg'.fov]
                  /\ f_fovy' = UpdateFOVy(f_fovx', f_sar)
                  /\ f_z' = UpdateZ(f_fovx', f_fovy')
             ELSE UNCHANGED << f_fovx, f_fovy, f_z >> ]_vars

\* An accepted SetViewpoint whose FOV differs from the stored one by less
\* than 0.001 rad: the stored FOV is still the old one.
C3_Witness ==
    /\ IsSetViewpoint(op, arg, TRUE) /\ ret = VLC_SUCCESS
    /\ arg.fov = FIELD_OF_VIEW_DEGREES_MIN + 3755
    /\ f_fovx = Radians[FIELD_OF_VIEW_DEGREES_MIN]

\* C6: a renderer whose projection mode is rectangular has ProjectionMatrix,
\* ZoomMatrix and ViewMatrix equal to the identity in every state.
C6_FlatIsIdentity ==
    (life = "Ready" /\ fmt.projection_mode = PROJECTION_MODE_RECTANGULAR) =>
        \A m \in {"ProjectionMatrix", "ZoomMatrix", "ViewMatrix"} :
            \A i \in 1..16 :
                var[m][i] = Num(IF i \in {1, 6, 11, 16} THEN MICRO ELSE 0)

\* A rectangular renderer after a turned viewpoint with the widest FOV and a
\* window aspect ratio have been set.
C6_Witness ==
    /\ life = "Ready" /\ fmt.projection_mode = PROJECTION_MODE_RECTANGULAR
    /\ IsSetViewpoint(op, arg, TRUE)
    /\ vp.yaw /= 0 /\ vp.pitch /= 0
    /\ f_fovx = Radians[FIELD_OF_VIEW_DEGREES_MAX] /\ f_z < 0
    /\ f_sar = <<16, 9>>

Made(c, fn) == \E i \in DOMAIN c : c[i].fn = fn

\* The operation attempted a mesh rebuild: it called SetupCoords.
Attempted(c) == Made(c, "SetupCoords")
\* The operation uploaded a mesh.
Uploaded(c)  == Made(c, "BufferData")

Supported(projection_mode) ==
    projection_mode \in { PROJECTION_MODE_RECTANGULAR,
                          PROJECTION_MODE_EQUIRECTANGULAR,
                          PROJECTION_MODE_CUBEMAP_LAYOUT_STANDARD }

\* The rebuild of the operation failed: an allocation returned NULL, or
\* SetupCoords was called for a projection mode that has no builder.
RebuildFailed(c, projection_mode) ==
    \/ \E i \in DOMAIN c : c[i].fn = "vlc_alloc" /\ c[i].n = 0
    \/ Attempted(c) /\ ~Supported(projection_mode)

\* C4: when the rebuild inside Draw fails, Draw returns the failure code
\* (VLC_ENOMEM for an allocation, VLC_EGENERIC for an unsupported projection
\* mode), issues no BufferData and no DrawElements, frees every array it had
\* allocated, and leaves last_source, nb_indices and the buffers unchanged;
\* a Draw with the same source that follows attempts the rebuild again; a
\* mesh is uploaded only when all three allocations succeeded.
C4_FailedRebuild ==
    [][ op' = "Draw" =>
          /\ RebuildFailed(calls', fmt.projection_mode) =>
               /\ ret' = IF Supported(fmt.projection_mode)
                         THEN VLC_ENOMEM ELSE VLC_EGENERIC
               /\ ~Uploaded(calls') /\ ~Made(calls', "DrawElements")
               /\ UNCHANGED << last_source, nb_indices, buffers >>
          /\ \A a \in {"vertexCoord", "textureCoord", "indices"} :
               Cardinality({i \in DOMAIN calls' :
                   calls'[i] = [fn |-> "vlc_alloc", what |-> a, n |-> 1]})
               = Cardinality({i \in DOMAIN calls' :
                   calls'[i] = [fn |-> "free", what |-> a, n |-> 1]})
          /\ Uploaded(calls') =>
               \A a \in {"vertexCoord", "textureCoord", "indices"} :
                   \E i \in DOMAIN calls' :
                       calls'[i] = [fn |-> "vlc_alloc", what |-> a, n |-> 1]
          /\ (op = "Draw" /\ ret /= VLC_SUCCESS /\ arg' = arg) =>
               Attempted(calls') ]_vars

\* A Draw whose third allocation failed, on a renderer that holds the mesh
\* of an earlier rectangle.
C4_Witness ==
    /\ op = "Draw" /\ ret = VLC_ENOMEM
    /\ Made(calls, "free") /\ ~Uploaded(calls)
    /\ last_source /= SOURCE_ZERO /\ arg /= last_source /\ nb_indices > 0

C5_FailedNewReleasesAll ==
    (op = "New" /\ ret = "NULL") =>
        \A x \in Resources : res[x][1] <= 1 /\ res[x][2] = res[x][1]

\* The objects the calls of an operation were made on, in order.
Objects(c) == [i \in DOMAIN c |-> c[i].what]

C10_PrepareVerbatim ==
    [][ op' = "Prepare" =>
          /\ Len(calls') = 1 /\ calls'[1].fn = "update_textures"
          /\ ret' = calls'[1].what
          /\ UNCHANGED << build, life, config, view, mesh, res >> ]_vars

\* A Prepare that failed on a renderer whose viewpoint has been set and that
\* has drawn a mesh.
C10_Witness ==
    /\ op = "Prepare" /\ ret = VLC_ENOMEM
    /\ f_fovx > 0 /\ f_z < 0 /\ last_source /= SOURCE_ZERO /\ nb_indices > 0


(***************************************************************************)
(* C11.  The sphere mesh has 16641 vertices and 98304 indices.  The cell   *)
(* (lat, lon) stores the triangles (first, second, first + 1) and          *)
(* (second, second + 1, first + 1), first = lat * 129 + lon and second =   *)
(* first + 129, into six slots of its own: the slots of the cells follow   *)
(* one another from slot 0 without a gap or an overlap, and the last cell  *)
(* ends at slot 98303, so every slot is stored into once.  Every stored    *)
(* index is the value computed, below 16641, and so fits in 16 bits.       *)
(***************************************************************************)
C11_SphereIndices ==
    /\ BuildSphere(<< >>, 0).mesh.nbVertices = 16641
    /\ BuildSphere(<< >>, 0).mesh.nbIndices = 98304
    /\ build.fn = "BuildSphere" =>
          LET first  == build.lat * 129 + build.lon
              second == first + 129
              off    == 6 * build.n
              i      == build.indices
          IN  /\ build.lat \in 0..127 /\ build.lon \in 0..127
              /\ DOMAIN i = off .. off + 5
              /\ off + 5 < 98304
              /\ << i[off], i[off + 1], i[off + 2] >>
                   = << first, second, first + 1 >>
              /\ << i[off + 3], i[off + 4], i[off + 5] >>
                   = << second, second + 1, first + 1 >>
              /\ \A s \in DOMAIN i : i[s] < 16641 /\ i[s] < 65536
              /\ (build.lat = 127 /\ build.lon = 127) => off + 5 = 98303

\* The index loop has reached its last cell.
C11_Witness ==
    /\ build.fn = "BuildSphere"
    /\ build.lat = nbLatBands - 1 /\ build.lon = nbLonBands - 1

(***************************************************************************)
(* C12.  The orientation matrix of a renderer has entries -1, 0 and 1      *)
(* only, and is the identity for the normal orientation.  Read as a        *)
(* column-major map applied to (u, v, 0, 1) it maps the unit square onto   *)
(* itself and leaves 0 and 1 in the last two places.  The map of the       *)
(* rotation by 90 followed by that of the rotation by 270 is the identity, *)
(* and so the other way round; the maps of the rotation by 180, of both    *)
(* flips, of the transposition and of the anti-transposition are their own *)
(* inverses.                                                               *)
(***************************************************************************)
\* The entry of column col and row row of a column-major matrix.
Entry(m, col, row) == m[col * 4 + row + 1][2] \div MICRO

\* The image of (u, v, 0, 1), u and v in halves.
Apply(m, p) ==
    << Entry(m, 0, 0) * p[1] + Entry(m, 1, 0) * p[2] + Entry(m, 3, 0) * 2,
       Entry(m, 0, 1) * p[1] + Entry(m, 1, 1) * p[2] + Entry(m, 3, 1) * 2,
       Entry(m, 0, 2) * p[1] + Entry(m, 1, 2) * p[2] + Entry(m, 3, 2) * 2,
       Entry(m, 0, 3) * p[1] + Entry(m, 1, 3) * p[2] + Entry(m, 3, 3) * 2 >>

\* The corners, the edge midpoints and the centre of the unit square.
UnitSquare == { <<u, v, 0, 2>> : u \in 0..2, v \in 0..2 }

InverseOf(o) ==
    CASE o = "ORIENT_ROTATED_90"  -> "ORIENT_ROTATED_270"
      [] o = "ORIENT_ROTATED_270" -> "ORIENT_ROTATED_90"
      [] OTHER                    -> o

C12_Orientation ==
    life = "Ready" =>
      LET m == var.OrientationMatrix
          w == getOrientationTransformMatrix(InverseOf(fmt.orientation))
      IN  /\ \A i \in 1..16 : m[i] \in { Num(-MICRO), ZERO, ONE }
          /\ fmt.orientation = "ORIENT_NORMAL" => m = identity
          /\ { Apply(m, p) : p \in UnitSquare } = UnitSquare
          /\ \A p \in UnitSquare : Apply(w, Apply(m, p)) = p

\* A quarter turn that is not the identity, after a viewpoint change.
C12_Witness ==
    /\ life = "Ready" /\ op = "SetViewpoint" /\ ret = VLC_SUCCESS
    /\ fmt.orientation = "ORIENT_ROTATED_270"
    /\ var.OrientationMatrix /= identity
    /\ Apply(var.OrientationMatrix, <<2, 0, 0, 2>>) = <<2, 2, 0, 2>>

(***************************************************************************)
(* C13.  The cube has 24 vertices and 36 indices.  Every coordinate of     *)
(* every vertex is 1 or -1.  The four vertices 4k..4k+3 of face k agree in *)
(* one coordinate: z = -1 for the front, z = 1 for the back, x = -1 for    *)
(* the left, x = 1 for the right, y = -1 for the bottom and y = 1 for the  *)
(* top.  The six indices of face k are vertices of that face only, three   *)
(* different ones for each of its two triangles, and the two triangles     *)
(* have two vertices, one edge, in common and cover the four vertices.     *)
(***************************************************************************)
\* The axis, 1 to 3, and the value the vertices of face k agree in.
FaceAxis == << <<3, -1>>, <<3, 1>>, <<1, -1>>, <<1, 1>>, <<2, -1>>, <<2, 1>> >>

C13_Cube ==
    build.fn = "BuildCube" =>
      /\ build.nbVertices = 24 /\ Len(build.vertexCoord) = 24
      /\ build.nbIndices = 36  /\ Len(build.indices) = 36
      /\ \A i \in 1..24 : \A a \in 1..3 : build.vertexCoord[i][a] \in {-1, 1}
      /\ \A k \in 0..5 :
            LET t1 == { build.indices[6 * k + j] : j \in 1..3 }
                t2 == { build.indices[6 * k + j] : j \in 4..6 }
            IN  /\ \A i \in 4 * k .. 4 * k + 3 :
                      build.vertexCoord[i + 1][FaceAxis[k + 1][1]]
                        = FaceAxis[k + 1][2]
                /\ t1 \cup t2 = 4 * k .. 4 * k + 3
                /\ Cardinality(t1) = 3 /\ Cardinality(t2) = 3
                /\ Cardinality(t1 \cap t2) = 2

\* A cube has been built from a source of 8 x 8 at offset 1, 1.
C13_Witness ==
    /\ build.fn = "BuildCube"
    /\ build.rect[1] = << <<1, 8>>, <<1, 8>>, <<9, 8>>, <<9, 8>> >>
    /\ build.indices[36] = 23

(***************************************************************************)
(* C14.  The rectangle has 4 vertices and 6 indices, the triangles 0, 1, 2 *)
(* and 2, 1, 3.  The vertices are (-1, 1), (-1, -1), (1, 1) and (1, -1),   *)
(* and on every plane the vertex with x = -1 has u = left, the vertex with *)
(* x = 1 has u = right, the vertex with y = 1 has v = top and the vertex   *)
(* with y = -1 has v = bottom of the plane's sampling rectangle.           *)
(***************************************************************************)
C14_Rectangle ==
    build.fn = "BuildRectangle" =>
      /\ build.nbVertices = 4 /\ Len(build.vertexCoord) = 4
      /\ build.nbIndices = 6  /\ build.indices = << 0, 1, 2, 2, 1, 3 >>
      /\ { <<build.vertexCoord[i][1], build.vertexCoord[i][2]>> : i \in 1..4 }
           = { <<-1, 1>>, <<-1, -1>>, <<1, 1>>, <<1, -1>> }
      /\ \A p \in DOMAIN build.rect :
            /\ Len(build.textureCoord[p]) = 4
            /\ \A i \in 1..4 :
                  LET x == build.vertexCoord[i][1]
                      y == build.vertexCoord[i][2]
                      r == build.rect[p]
                  IN  build.textureCoord[p][i]
                        = << IF x = -1 THEN r[1] ELSE r[3],
                             IF y = 1 THEN r[2] ELSE r[4] >>

\* A rectangle has been built from a source of 4 x 8 at offset 1, 0: the
\* chroma plane samples from 1/8 to 5/8 across and from 0 to 1 down.
C14_Witness ==
    /\ build.fn = "BuildRectangle"
    /\ Len(build.rect) = 2
    /\ build.rect[2] = << <<1, 8>>, <<0, 1>>, <<5, 8>>, <<1, 1>> >>
    /\ build.textureCoord[2][4] = << <<5, 8>>, <<1, 1>> >>

(***************************************************************************)
(* C15.  After every operation that computes the perspective projection,   *)
(* the vertical FOV or the minimum zoom of a renderer whose projection is  *)
(* not flat (the construction, every SetWindowAspectRatio and every        *)
(* accepted SetViewpoint) the stored horizontal FOV is within the legal    *)
(* range, FIELD_OF_VIEW_DEGREES_MIN to FIELD_OF_VIEW_DEGREES_MAX in        *)
(* radians.                                                                *)
(***************************************************************************)
C15_TrigWithLegalFov ==
    ( /\ life = "Ready"
      /\ fmt.projection_mode /= PROJECTION_MODE_RECTANGULAR
      /\ \/ op = "New"
         \/ op = "SetWindowAspectRatio"
         \/ op = "SetViewpoint" /\ ret = VLC_SUCCESS )
    => /\ f_fovx >= Radians[FIELD_OF_VIEW_DEGREES_MIN]
       /\ f_fovx <= Radians[FIELD_OF_VIEW_DEGREES_MAX]

(***************************************************************************)
(* C16.  A Draw that returns success passes nb_indices to its one          *)
(* DrawElements call.  When a rebuild has succeeded since construction,    *)
(* the projection mode is one with a builder, the count is 6 for the       *)
(* rectangular, 98304 for the equirectangular and 36 for the standard      *)
(* cubemap mode, and the buffers hold the 4, 16641 or 24 vertices and the  *)
(* indices of a build for that mode.  When none has, the source of the     *)
(* Draw is the all-zero rectangle, the count is 0 and the buffers have     *)
(* never been filled.  No Draw changes the format.                         *)
(***************************************************************************)
\* The vertex and index counts of the mesh of a projection mode.
Topology(projection_mode) ==
    CASE projection_mode = PROJECTION_MODE_RECTANGULAR     -> <<4, 6>>
      [] projection_mode = PROJECTION_MODE_EQUIRECTANGULAR -> <<16641, 98304>>
      [] projection_mode = PROJECTION_MODE_CUBEMAP_LAYOUT_STANDARD -> <<24, 36>>
      [] OTHER -> <<-1, -1>>

\* The counts the DrawElements calls among c were given.
DrawCounts(c) == { c[i].n : i \in { j \in DOMAIN c : c[j].fn = "DrawElements" } }

InwardCorners(r, cols, rows, c, w, pw, ph) ==
    LET width  == FSub(r[3], r[1])
        height == FSub(r[4], r[2])
        L == FAdd(FAdd(r[1], FMul(width, <<c, cols>>)), pw)
        R == FSub(FAdd(r[1], FMul(width, <<c + 1, cols>>)), pw)
        T == FAdd(FAdd(r[2], FMul(height, <<w, rows>>)), ph)
        B == FSub(FAdd(r[2], FMul(height, <<w + 1, rows>>)), ph)
    IN  { <<L, T>>, <<L, B>>, <<R, T>>, <<R, B>> }

\* The UVs of face k on plane p.
FaceUVs(p, k) == { build.textureCoord[p][4 * k + i] : i \in 1..4 }

\* <<column, row>> of the faces, in the order front, back, left, right,
\* bottom, top.
FaceCell == << <<1, 1>>, <<2, 1>>, <<1, 0>>, <<0, 0>>, <<0, 1>>, <<2, 0>> >>

C17_CubeLayout ==
    build.fn = "BuildCube" =>
      /\ Cardinality({ FaceCell[k] : k \in 1..6 }) = 6
      /\ { FaceCell[k] : k \in 1..6 } = (0..2) \X (0..1)
      /\ build.padW = Frac(fmt.i_cubemap_padding, fmt.i_width)
      /\ build.padH = Frac(fmt.i_cubemap_padding, fmt.i_height)
      /\ \A p \in DOMAIN build.rect : \A k \in 0..5 :
            FaceUVs(p, k) = InwardCorners(build.rect[p], 3, 2,
                                          FaceCell[k + 1][1], FaceCell[k + 1][2],
                                          build.padW, build.padH)

\* A cube with a padding of one pixel built from the whole picture: the
\* first vertex of the front has u = 1/3 + 1/8 and v = 1/2 + 1/8 on both
\* planes.
C17_Witness ==
    /\ build.fn = "BuildCube"
    /\ fmt.i_cubemap_padding = 1
    /\ build.rect[2] = << <<0, 1>>, <<0, 1>>, <<1, 1>>, <<1, 1>> >>
    /\ build.textureCoord[1][1] = << <<11, 24>>, <<5, 8>> >>
    /\ build.textureCoord[2][1] = << <<11, 24>>, <<5, 8>> >>

\* The cells of a layout that face k of plane p takes its UVs from, for a
\* padding of i_cubemap_padding over the texture size of the plane.
CellsOfFace(p, k, cols, rows) ==
    { cell \in (0 .. cols - 1) \X (0 .. rows - 1) :
        FaceUVs(p, k) = InwardCorners(build.rect[p], cols, rows,
                            cell[1], cell[2],
                            Frac(fmt.i_cubemap_padding, tex_width[p]),
                            Frac(fmt.i_cubemap_padding, tex_height[p])) }

\* C17 as the specification states it: the rectangle is divided into 4
\* columns and 3 rows, each face takes the corners of a cell of its own
\* moved inward by the padding, and the padding of a plane is
\* i_cubemap_padding over the texture size of that plane.
C17_FourByThree ==
    build.fn = "BuildCube" =>
      \A p \in DOMAIN build.rect :
        /\ \A k \in 0..5 : CellsOfFace(p, k, 4, 3) /= {}
        /\ \A k1 \in 0..5 : \A k2 \in 0..5 :
             k1 /= k2 => \E c1 \in CellsOfFace(p, k1, 4, 3) :
                           \E c2 \in CellsOfFace(p, k2, 4, 3) : c1 /= c2

FLeq(a, b) == a[2] > 0 /\ b[2] > 0 /\ a[1] * b[2] <= b[1] * a[2]

Normalized(r) ==
    /\ FLeq(<<0, 1>>, r[1]) /\ FLeq(r[1], r[3]) /\ FLeq(r[3], <<1, 1>>)
    /\ FLeq(<<0, 1>>, r[2]) /\ FLeq(r[2], r[4]) /\ FLeq(r[4], <<1, 1>>)

Within(source, f) ==
    /\ source.i_x_offset + source.i_visible_width <= f.i_visible_width
    /\ source.i_y_offset + source.i_visible_height <= f.i_visible_height

C19_NormalizedRect ==
    life = "Ready" =>
      /\ \A j \in 1..interop.tex_count :
            tex_width[j] /= 0 /\ tex_height[j] /= 0
      /\ (op = "Draw" /\ Uploaded(calls) /\ Within(arg, fmt)) =>
            \A j \in 1..interop.tex_count : Normalized(buffers.mesh.rect[j])

(***************************************************************************)
(* C20.  In a renderer that construction returned, of N planes, N from 1   *)
(* to 3, the five uniform locations, the location of VertexPosition and    *)
(* those of MultiTexCoord[j], j < N, are not -1, and those of              *)
(* MultiTexCoord[j], j >= N, are -1.  A construction looks up no           *)
(* MultiTexCoord[j] with j >= N, and when it succeeds it has looked up     *)
(* every other location.  When a lookup returns -1 or the collaborator's   *)
(* pf_fetch_locations fails, the construction returns NULL and the program *)
(* has been deleted.  A Draw enables VertexPosition and MultiTexCoord[j],  *)
(* j < N, at locations that are not -1, and no other attribute.            *)
(***************************************************************************)
\* The names of the locations the calls c looked up.
LookedUp(c) ==
    { c[i].what : i \in { k \in DOMAIN c :
                            c[k].fn \in {"GetUniformLocation",
                                         "GetAttribLocation"} } }

\* The calls among c that enabled an attribute.
Enabled(c) == { i \in DOMAIN c : c[i].fn = "EnableVertexAttribArray" }

\* The attributes a renderer of N planes needs.
Needed(N) ==
    {"VertexPosition"}
    \cup { << "MultiTexCoord0", "MultiTexCoord1", "MultiTexCoord2" >>[j] :
             j \in 1..N }

=============================================================================
